---- MODULE Spec2Model ----
(***************************************************************************)
(* Model of app/server/server.go of registry-admin.                        *)
(*                                                                         *)
(*  Spec       the life cycle of one Server: Run (with routes()), the      *)
(*             startup htpasswd sync, the maintenance scheduler started by *)
(*             routes(), and Shutdown, all interleaved.                    *)
(*  SpecAuth   the credential store with BasicAuthCheckerFn, Check,        *)
(*             ClaimUpdateFn and Validate.                                 *)
(*  SpecRoutes one request travelling through the middleware chain that    *)
(*             routes() mounts in front of each handler.                   *)
(***************************************************************************)
EXTENDS Integers, Sequences, FiniteSets, TLC

\* Bounds of the model.
MaxRuns == 3
MaxSkips == 2
NumUsers == 2

VARIABLES
    \* ---- Server life cycle (Spec)
    regNil,         \* s.RegistryService == nil
    sslMode,        \* s.SSLConfig.SSLMode
    gcInterval,     \* s.GarbageCollectorInterval
    ctxCancelled,   \* the context handed to Run has been cancelled
    runPc,          \* position of the goroutine executing Run
    redirPc,        \* position of the `go func` serving the http redirect/challenge server
    shutPc,         \* position of the goroutine executing Shutdown
    lock,           \* holder of s.lock
    httpServer,     \* s.httpServer
    httpsServer,    \* s.httpsServer
    storageClosed,  \* s.Storage.Close has been called
    panicked,       \* routes() panicked: the process is gone
    events,         \* what Run has done so far, in order
    startupSync,    \* outcome of the UpdateHtpasswd call in routes()
    lastSyncErr,    \* error value of the latest UpdateHtpasswd call of a user handler
    schedState,     \* the maintenance goroutine: "off", "on", "stopped"
    busy,           \* the scheduler's non-blocking guard
    runs,           \* runs[r]: the steps of maintenance run r
    nRuns,          \* maintenance runs started so far
    skipped,        \* ticks skipped because a run was in progress
    schedErrors,    \* MaintenanceTaskFailed reports
    \* ---- Credential store and token claims (SpecAuth)
    users,          \* the store: users[n] is a record, or NoUser
    claims,         \* the token claims under consideration
    fresh,          \* claims went through ClaimUpdateFn since their user was last marked disabled
    pending,        \* result of the call in progress, or NoCall
    \* ---- Routing (SpecRoutes)
    req,            \* the request in flight, or NoReq
    reqPos,         \* middlewares of the chain already passed
    reqStatus       \* "pending", "handler", or the status that rejected it

cfgVars == <<regNil, sslMode, gcInterval>>
schedVars == <<schedState, busy, runs, nRuns, skipped, schedErrors>>
lifeVars == <<cfgVars, ctxCancelled, runPc, redirPc, shutPc, lock,
              httpServer, httpsServer, storageClosed, panicked, events, startupSync,
              lastSyncErr, schedVars>>
authVars == <<users, claims, fresh, pending>>
routeVars == <<req, reqPos, reqStatus>>
vars == <<lifeVars, authVars, routeVars>>

(***************************************************************************)
(* Server life cycle                                                       *)
(***************************************************************************)

SSLNone == "none"
SSLStatic == "static"
SSLAuto == "auto"
SSLUnknown == "unknown"
SSLModes == {SSLNone, SSLStatic, SSLAuto, SSLUnknown}

RunIds == 1..MaxRuns
NoRun == [sync |-> "none", gc |-> "none"]

\* Run, lines 115-119 and 174: the nil check, then the switch without a default.
RunDispatchNoNilCheck(nilReg, mode) ==
    IF mode \in {SSLNone, SSLStatic, SSLAuto} THEN "lock" ELSE "returned_nil"

RunDispatch(nilReg, mode) ==
    IF nilReg THEN "returned_err"
    ELSE IF mode \in {SSLNone, SSLStatic, SSLAuto} THEN "lock"
    ELSE "returned_nil"

\* routes(), lines 252-254: a failed startup sync panics.
SyncFailureLogged == [pc |-> "routes_maint", panic |-> FALSE]

SyncFailure == [pc |-> "panicked", panic |-> TRUE]

\* The server that carries routes(): the http one without TLS, else the https one.
MainServer == IF sslMode = SSLNone THEN httpServer ELSE httpsServer

MainServed == MainServer = "listening"

\* http.Server.Shutdown as Shutdown uses it: the listeners are closed, and a later
\* ListenAndServe of the same server returns ErrServerClosed.
ServerShutdown(srv) == IF srv = "nil" THEN "nil" ELSE "closed"

\* http.Server.ListenAndServe as Run uses it.
ServerListen(srv, bindOk) ==
    IF srv = "created" /\ bindOk THEN "listening" ELSE srv

Active(r) == runs[r].sync = "running" \/ runs[r].gc = "running"
ActiveRuns == {r \in RunIds : Active(r)}

LifeInit ==
    /\ regNil \in BOOLEAN
    /\ sslMode \in SSLModes
    /\ gcInterval \in {0, 1}
    /\ ctxCancelled = FALSE
    /\ runPc = "idle"
    /\ redirPc = "none"
    /\ shutPc = "idle"
    /\ lock = "free"
    /\ httpServer = "nil"
    /\ httpsServer = "nil"
    /\ storageClosed = FALSE
    /\ panicked = FALSE
    /\ events = <<>>
    /\ startupSync = "none"
    /\ lastSyncErr = FALSE
    /\ schedState = "off"
    /\ busy = FALSE
    /\ runs = [r \in RunIds |-> NoRun]
    /\ nRuns = 0
    /\ skipped = 0
    /\ schedErrors = 0

\* Run, line 109.
RunCall ==
    /\ ~panicked
    /\ runPc = "idle"
    /\ runPc' = "check"
    /\ UNCHANGED <<cfgVars, ctxCancelled, redirPc, shutPc, lock,
                   httpServer, httpsServer, storageClosed, panicked, events, startupSync,
                   lastSyncErr, schedVars, authVars, routeVars>>

\* Run, lines 115-119.
RunCheck ==
    /\ ~panicked
    /\ runPc = "check"
    /\ runPc' = RunDispatch(regNil, sslMode)
    /\ UNCHANGED <<cfgVars, ctxCancelled, redirPc, shutPc, lock,
                   httpServer, httpsServer, storageClosed, panicked, events, startupSync,
                   lastSyncErr, schedVars, authVars, routeVars>>

\* Run, s.lock.Lock() at lines 123, 133, 154.
RunLock ==
    /\ ~panicked
    /\ runPc = "lock"
    /\ lock = "free"
    /\ lock' = "run"
    /\ runPc' = "routes_sync"
    /\ UNCHANGED <<cfgVars, ctxCancelled, redirPc, shutPc,
                   httpServer, httpsServer, storageClosed, panicked, events, startupSync,
                   lastSyncErr, schedVars, authVars, routeVars>>

\* routes(), lines 245-254: the startup sync of the credential file.
RoutesUpdateHtpasswd ==
    /\ ~panicked
    /\ runPc = "routes_sync"
    /\ \E ok \in BOOLEAN :
        /\ startupSync' = IF ok THEN "ok" ELSE "failed"
        /\ runPc' = IF ok THEN "routes_maint" ELSE SyncFailure.pc
        /\ panicked' = IF ok THEN FALSE ELSE SyncFailure.panic
    /\ events' = Append(events, "sync")
    /\ UNCHANGED <<cfgVars, ctxCancelled, redirPc, shutPc, lock,
                   httpServer, httpsServer, storageClosed,
                   lastSyncErr, schedVars, authVars, routeVars>>

\* Where RepositoriesMaintenance leaves the scheduler: a zero or negative interval
\* disables it.
MaintenanceStart(interval) == IF interval > 0 THEN "on" ELSE "off"

\* routes(), lines 321-322.
RoutesRepositoriesMaintenance ==
    /\ ~panicked
    /\ runPc = "routes_maint"
    /\ schedState' = MaintenanceStart(gcInterval)
    /\ events' = Append(events, "maintenance")
    /\ runPc' = "store"
    /\ UNCHANGED <<cfgVars, ctxCancelled, redirPc, shutPc, lock,
                   httpServer, httpsServer, storageClosed, panicked, startupSync,
                   lastSyncErr, busy, runs, nRuns, skipped, schedErrors, authVars, routeVars>>

\* Run, lines 124-126, 134-140, 155-162: the servers are stored and the lock released.
RunStoreServers ==
    /\ ~panicked
    /\ runPc = "store"
    /\ httpServer' = "created"
    /\ httpsServer' = IF sslMode = SSLNone THEN httpsServer ELSE "created"
    /\ lock' = "free"
    /\ runPc' = IF sslMode = SSLNone THEN "listen" ELSE "spawn"
    /\ UNCHANGED <<cfgVars, ctxCancelled, redirPc, shutPc,
                   storageClosed, panicked, events, startupSync,
                   lastSyncErr, schedVars, authVars, routeVars>>

\* Run, lines 142-146 and 164-169: the goroutine of the redirect/challenge server.
RunGoRedirect ==
    /\ ~panicked
    /\ runPc = "spawn"
    /\ redirPc' = "spawned"
    /\ runPc' = "listen"
    /\ UNCHANGED <<cfgVars, ctxCancelled, shutPc, lock,
                   httpServer, httpsServer, storageClosed, panicked, events, startupSync,
                   lastSyncErr, schedVars, authVars, routeVars>>

\* Lines 144 and 167: s.httpServer.ListenAndServe() in the goroutine.
RedirListen ==
    /\ ~panicked
    /\ redirPc = "spawned"
    /\ \E bindOk \in BOOLEAN :
        /\ httpServer' = ServerListen(httpServer, bindOk)
        /\ redirPc' = IF httpServer' = "listening" THEN "listening" ELSE "terminated"
    /\ events' = Append(events, "listen")
    /\ UNCHANGED <<cfgVars, ctxCancelled, runPc, shutPc, lock,
                   httpsServer, storageClosed, panicked, startupSync,
                   lastSyncErr, schedVars, authVars, routeVars>>

\* Lines 145 and 168: ListenAndServe returns once the server has been shut down.
RedirReturns ==
    /\ ~panicked
    /\ redirPc = "listening"
    /\ httpServer = "closed"
    /\ redirPc' = "terminated"
    /\ UNCHANGED <<cfgVars, ctxCancelled, runPc, shutPc, lock,
                   httpServer, httpsServer, storageClosed, panicked, events, startupSync,
                   lastSyncErr, schedVars, authVars, routeVars>>

\* Run, lines 128, 148, 171: the server that carries routes() starts to listen.
RunListenAndServe ==
    /\ ~panicked
    /\ runPc = "listen"
    /\ \E bindOk \in BOOLEAN :
        IF sslMode = SSLNone
        THEN /\ httpServer' = ServerListen(httpServer, bindOk)
             /\ httpsServer' = httpsServer
             /\ runPc' = IF httpServer' = "listening" THEN "serving" ELSE "returned_err"
        ELSE /\ httpsServer' = ServerListen(httpsServer, bindOk)
             /\ httpServer' = httpServer
             /\ runPc' = IF httpsServer' = "listening" THEN "serving" ELSE "returned_err"
    /\ events' = Append(events, "listen")
    /\ UNCHANGED <<cfgVars, ctxCancelled, redirPc, shutPc, lock,
                   storageClosed, panicked, startupSync,
                   lastSyncErr, schedVars, authVars, routeVars>>

\* Run, lines 128, 148, 171: ListenAndServe returns once the server has been shut down.
RunServeReturns ==
    /\ ~panicked
    /\ runPc = "serving"
    /\ MainServer = "closed"
    /\ runPc' = "returned_err"
    /\ UNCHANGED <<cfgVars, ctxCancelled, redirPc, shutPc, lock,
                   httpServer, httpsServer, storageClosed, panicked, events, startupSync,
                   lastSyncErr, schedVars, authVars, routeVars>>

\* Shutdown, lines 178-182: called at any time, it takes the lock first.
ShutdownCall ==
    /\ ~panicked
    /\ shutPc = "idle"
    /\ shutPc' = "lock"
    /\ UNCHANGED <<cfgVars, ctxCancelled, runPc, redirPc, lock,
                   httpServer, httpsServer, storageClosed, panicked, events, startupSync,
                   lastSyncErr, schedVars, authVars, routeVars>>

ShutdownLock ==
    /\ ~panicked
    /\ shutPc = "lock"
    /\ lock = "free"
    /\ lock' = "shutdown"
    /\ shutPc' = "http"
    /\ UNCHANGED <<cfgVars, ctxCancelled, runPc, redirPc,
                   httpServer, httpsServer, storageClosed, panicked, events, startupSync,
                   lastSyncErr, schedVars, authVars, routeVars>>

\* Shutdown, lines 183-188.
ShutdownHTTP ==
    /\ ~panicked
    /\ shutPc = "http"
    /\ httpServer' = ServerShutdown(httpServer)
    /\ shutPc' = "https"
    /\ UNCHANGED <<cfgVars, ctxCancelled, runPc, redirPc, lock,
                   httpsServer, storageClosed, panicked, events, startupSync,
                   lastSyncErr, schedVars, authVars, routeVars>>

\* Shutdown, lines 190-196.
ShutdownHTTPS ==
    /\ ~panicked
    /\ shutPc = "https"
    /\ httpsServer' = ServerShutdown(httpsServer)
    /\ shutPc' = "storage"
    /\ UNCHANGED <<cfgVars, ctxCancelled, runPc, redirPc, lock,
                   httpServer, storageClosed, panicked, events, startupSync,
                   lastSyncErr, schedVars, authVars, routeVars>>

\* Shutdown, lines 198-201: the storage is closed and the lock released.
ShutdownStorage ==
    /\ ~panicked
    /\ shutPc = "storage"
    /\ storageClosed' = TRUE
    /\ lock' = "free"
    /\ shutPc' = "done"
    /\ UNCHANGED <<cfgVars, ctxCancelled, runPc, redirPc,
                   httpServer, httpsServer, panicked, events, startupSync,
                   lastSyncErr, schedVars, authVars, routeVars>>

\* The owner of the context given to Run cancels it.
CancelCtx ==
    /\ ~panicked
    /\ runPc # "idle"
    /\ ~ctxCancelled
    /\ ctxCancelled' = TRUE
    /\ UNCHANGED <<cfgVars, runPc, redirPc, shutPc, lock,
                   httpServer, httpsServer, storageClosed, panicked, events, startupSync,
                   lastSyncErr, schedVars, authVars, routeVars>>

\* The scheduler's non-blocking guard: a tick starts a run only when none is in progress.
TickStartsRunAlways(b) == TRUE

TickStartsRun(b) == ~b

\* What follows the catalog sync of a run: garbage collection, or the abort of the run.
AfterSyncAlwaysGC(ok) == "gc"

AfterSync(ok) == IF ok THEN "gc" ELSE "abort"

\* A tick of the maintenance timer that finds no run in progress: run nRuns+1 starts
\* with its catalog sync. No run starts once cancellation has been requested.
SchedTick ==
    /\ ~panicked
    /\ schedState = "on"
    /\ ~ctxCancelled
    /\ TickStartsRun(busy)
    /\ nRuns < MaxRuns
    /\ nRuns' = nRuns + 1
    /\ runs' = [runs EXCEPT ![nRuns + 1] = [sync |-> "running", gc |-> "none"]]
    /\ busy' = TRUE
    /\ UNCHANGED <<cfgVars, ctxCancelled, runPc, redirPc, shutPc, lock,
                   httpServer, httpsServer, storageClosed, panicked, events, startupSync,
                   lastSyncErr, schedState, skipped, schedErrors, authVars, routeVars>>

\* A tick that fires while a run is in progress is skipped: nothing is queued and no
\* error is reported.
SchedTickSkipped ==
    /\ ~panicked
    /\ schedState = "on"
    /\ ~ctxCancelled
    /\ ~TickStartsRun(busy)
    /\ skipped < MaxSkips
    /\ skipped' = skipped + 1
    /\ UNCHANGED <<cfgVars, ctxCancelled, runPc, redirPc, shutPc, lock,
                   httpServer, httpsServer, storageClosed, panicked, events, startupSync,
                   lastSyncErr, schedState, busy, runs, nRuns, schedErrors,
                   authVars, routeVars>>

\* Step (1) of a run, the catalog sync, ends: on success garbage collection follows,
\* on failure the run is aborted and reported, and the scheduler is idle again.
SchedSync(r) ==
    /\ ~panicked
    /\ runs[r].sync = "running"
    /\ \E ok \in BOOLEAN :
        IF AfterSync(ok) = "gc"
        THEN /\ runs' = [runs EXCEPT ![r] = [sync |-> IF ok THEN "ok" ELSE "failed",
                                             gc |-> "running"]]
             /\ UNCHANGED <<busy, schedErrors>>
        ELSE /\ runs' = [runs EXCEPT ![r] = [sync |-> "failed", gc |-> "none"]]
             /\ busy' = FALSE
             /\ schedErrors' = schedErrors + 1
    /\ UNCHANGED <<cfgVars, ctxCancelled, runPc, redirPc, shutPc, lock,
                   httpServer, httpsServer, storageClosed, panicked, events, startupSync,
                   lastSyncErr, schedState, nRuns, skipped, authVars, routeVars>>

\* Step (2) of a run, garbage collection, ends, and with it the run.
SchedGC(r) ==
    /\ ~panicked
    /\ runs[r].gc = "running"
    /\ \E ok \in BOOLEAN :
        /\ runs' = [runs EXCEPT ![r].gc = IF ok THEN "done" ELSE "failed"]
        /\ schedErrors' = IF ok THEN schedErrors ELSE schedErrors + 1
    /\ busy' = FALSE
    /\ UNCHANGED <<cfgVars, ctxCancelled, runPc, redirPc, shutPc, lock,
                   httpServer, httpsServer, storageClosed, panicked, events, startupSync,
                   lastSyncErr, schedState, nRuns, skipped, authVars, routeVars>>

\* The scheduler observes the cancellation between runs and stops.
SchedStop ==
    /\ ~panicked
    /\ schedState = "on"
    /\ ctxCancelled
    /\ ~busy
    /\ schedState' = "stopped"
    /\ UNCHANGED <<cfgVars, ctxCancelled, runPc, redirPc, shutPc, lock,
                   httpServer, httpsServer, storageClosed, panicked, events, startupSync,
                   lastSyncErr, busy, runs, nRuns, skipped, schedErrors,
                   authVars, routeVars>>

\* A user handler behind the served router changes the user set and calls
\* UpdateHtpasswd (lines 74-75): a failure is an error value of that request, and
\* the router's Recoverer (line 207) keeps whatever a handler does with it from
\* ending the process.
UserChangeSync ==
    /\ ~panicked
    /\ MainServed
    /\ \E ok \in BOOLEAN : lastSyncErr' = ~ok
    /\ UNCHANGED <<cfgVars, ctxCancelled, runPc, redirPc, shutPc, lock,
                   httpServer, httpsServer, storageClosed, panicked, events, startupSync,
                   schedVars, authVars, routeVars>>

Next ==
    \/ RunCall
    \/ RunCheck
    \/ RunLock
    \/ RoutesUpdateHtpasswd
    \/ RoutesRepositoriesMaintenance
    \/ RunStoreServers
    \/ RunGoRedirect
    \/ RedirListen
    \/ RedirReturns
    \/ RunListenAndServe
    \/ RunServeReturns
    \/ ShutdownCall
    \/ ShutdownLock
    \/ ShutdownHTTP
    \/ ShutdownHTTPS
    \/ ShutdownStorage
    \/ CancelCtx
    \/ SchedTick
    \/ SchedTickSkipped
    \/ \E r \in RunIds : SchedSync(r)
    \/ \E r \in RunIds : SchedGC(r)
    \/ SchedStop
    \/ UserChangeSync

(***************************************************************************)
(* Claims about the life cycle                                             *)
(***************************************************************************)

Count(s, e) == Cardinality({i \in 1..Len(s) : s[i] = e})

FailedRuns == {r \in RunIds : runs[r].sync = "failed" \/ runs[r].gc = "failed"}

\* C3, as stated: a failure of UpdateHtpasswd, the one at startup included, never
\* terminates the process, and the server still comes up.
C3_SyncFailureNeverFatal ==
    (startupSync = "failed" \/ lastSyncErr) => ~panicked

\* C3, amended: a failure of UpdateHtpasswd in a user handler is an error value that
\* leaves the process running, while the failure of the startup call in routes()
\* panics: then, and only then, the process is gone, with no server created and no
\* scheduler started; the router (with /registry/auth) is served only after a
\* successful startup sync.
C3_StartupSyncFailureIsFatal ==
    /\ panicked <=> startupSync = "failed"
    /\ startupSync = "failed" =>
          /\ httpServer = "nil"
          /\ httpsServer = "nil"
          /\ schedState = "off"
          /\ Count(events, "maintenance") = 0
    /\ MainServed => startupSync = "ok"
    /\ lastSyncErr => ~panicked /\ startupSync = "ok"

C3_Witness == panicked /\ startupSync = "failed" /\ runPc = "panicked"

\* C4: Shutdown does not close the storage, and so does not complete, while a
\* maintenance run is in progress: the step that closes the storage is never taken
\* with a run active.
C4_ShutdownWaitsForRun == [][ShutdownStorage => ActiveRuns = {}]_vars

\* C5: at most one maintenance run is active at any time; the guard is held exactly
\* while a run is active, and a skipped tick reports no error: the reports are those
\* of the failed steps.
C5_AtMostOneActiveRun ==
    /\ Cardinality(ActiveRuns) <= 1
    /\ busy <=> ActiveRuns # {}
    /\ schedErrors = Cardinality(FailedRuns)
    /\ \A r \in RunIds : (r > nRuns) => runs[r] = NoRun

C5_Witness == skipped > 0 /\ ActiveRuns # {} /\ nRuns = 1

\* C6: in a run garbage collection executes only after the catalog sync of that run
\* succeeded; a run whose sync failed is over without garbage collection, leaves the
\* scheduler idle (the guard released), and the runs after it start normally.
C6_GCOnlyAfterSuccessfulSync ==
    \A r \in RunIds :
        /\ runs[r].gc # "none" => runs[r].sync = "ok"
        /\ runs[r].sync = "failed" =>
              /\ runs[r].gc = "none"
              /\ ~Active(r)
              /\ (r = nRuns => ~busy)
              /\ schedErrors >= 1

C6_Witness ==
    /\ runs[1] = [sync |-> "failed", gc |-> "none"]
    /\ runs[2] = [sync |-> "ok", gc |-> "running"]

\* C7: in a Run with a registry service and a recognised SSL mode the startup sync
\* is invoked exactly once, before RepositoriesMaintenance and before any server
\* listens; with a nil registry service Run returns an error and does none of these.
C7_StartupSyncOnceAndFirst ==
    /\ Count(events, "sync") <= 1
    /\ \A i \in 1..Len(events) :
          events[i] \in {"maintenance", "listen"} =>
              \E j \in 1..(i - 1) : events[j] = "sync"
    /\ schedState # "off" => startupSync = "ok"
    /\ (httpServer # "nil" \/ httpsServer # "nil") => startupSync = "ok"
    /\ (~regNil /\ sslMode # SSLUnknown
           /\ runPc \in {"routes_maint", "store", "spawn", "listen", "serving", "panicked"})
          => Count(events, "sync") = 1
    /\ (~regNil /\ sslMode # SSLUnknown /\ runPc = "returned_err")
          => Count(events, "sync") = 1
    /\ regNil =>
          /\ runPc \in {"idle", "check", "returned_err"}
          /\ events = <<>>
          /\ startupSync = "none"
          /\ schedState = "off"
          /\ httpServer = "nil"
          /\ httpsServer = "nil"

C7_Witness ==
    /\ MainServed
    /\ schedState = "on"
    /\ events = <<"sync", "maintenance", "listen">>

\* C9: once Shutdown has returned the storage is closed and no server created by
\* Run is accepting requests.
C9_NothingServesAfterShutdown ==
    shutPc = "done" =>
        /\ storageClosed
        /\ httpServer # "listening"
        /\ httpsServer # "listening"

(***************************************************************************)
(* Credential store, basic authentication and token claims                 *)
(***************************************************************************)

UserNames == 1..NumUsers
Passwords == {"secret", "guess"}
Roles == {"admin", "manager", "user"}

\* The stored credential hash of a password.
HashOf(p) == <<"hash", p>>

\* store.ComparePassword(hash, password)
ComparePassword(hash, password) == hash = HashOf(password)

NoUser == [exists |-> FALSE, disabled |-> FALSE, role |-> "user", hash |-> HashOf("secret")]

UserRecords ==
    [exists : {TRUE}, disabled : BOOLEAN, role : Roles, hash : {HashOf(p) : p \in Passwords}]

\* s.Storage.GetUser(ctx, name): the user's record, or an error for an unknown name.
GetUser(store, name) ==
    IF store[name].exists
    THEN [err |-> FALSE, u |-> store[name]]
    ELSE [err |-> TRUE, u |-> NoUser]

\* token.User{}, the empty claim returned with every refusal.
EmptyUserClaim == [name |-> 0, role |-> "", uid |-> 0]

\* BasicAuthCheckerFn with the password compared before the disabled flag is read.
BasicAuthCheckerFnCompareFirst(store, user, password) ==
    LET g == GetUser(store, user) IN
    IF g.err THEN [ok |-> FALSE, claim |-> EmptyUserClaim, err |-> FALSE]
    ELSE IF ~ComparePassword(g.u.hash, password)
    THEN [ok |-> FALSE, claim |-> EmptyUserClaim, err |-> FALSE]
    ELSE IF g.u.disabled THEN [ok |-> FALSE, claim |-> EmptyUserClaim, err |-> TRUE]
    ELSE [ok |-> TRUE, claim |-> [name |-> user, role |-> g.u.role, uid |-> user],
          err |-> FALSE]

\* BasicAuthCheckerFn, lines 442-472.
BasicAuthCheckerFn(store, user, password) ==
    LET g == GetUser(store, user) IN
    IF g.err THEN [ok |-> FALSE, claim |-> EmptyUserClaim, err |-> FALSE]
    ELSE IF g.u.disabled THEN [ok |-> FALSE, claim |-> EmptyUserClaim, err |-> TRUE]
    ELSE IF ~ComparePassword(g.u.hash, password)
    THEN [ok |-> FALSE, claim |-> EmptyUserClaim, err |-> FALSE]
    ELSE [ok |-> TRUE, claim |-> [name |-> user, role |-> g.u.role, uid |-> user],
          err |-> FALSE]

\* Check, lines 474-479.
Check(store, user, password) ==
    LET r == BasicAuthCheckerFn(store, user, password) IN [ok |-> r.ok, err |-> r.err]

\* token.Claims: User is nil (hasUser = FALSE) or carries a name, a role and the
\* attributes "disabled" and "uid".
NoUserClaims == [hasUser |-> FALSE, name |-> 0, role |-> "", disabled |-> "unset", uid |-> 0]

NewUserClaims(n) == [hasUser |-> TRUE, name |-> n, role |-> "", disabled |-> "unset", uid |-> 0]

\* token.User.BoolAttr("disabled"): false unless the attribute is set and true.
BoolAttrDisabled(c) == c.disabled = "true"

\* ClaimUpdateFn that copies the role and the uid but not the disabled flag.
ClaimUpdateFnNoDisabled(store, c) ==
    IF ~c.hasUser THEN [panic |-> TRUE, claims |-> c]
    ELSE LET g == GetUser(store, c.name) IN
         IF g.err THEN [panic |-> FALSE, claims |-> c]
         ELSE [panic |-> FALSE,
               claims |-> [c EXCEPT !.role = g.u.role, !.uid = c.name]]

\* ClaimUpdateFn, lines 423-440. claims.User.Name of claims without a user is a nil
\* dereference; a failed lookup returns the claims as they came.
ClaimUpdateFn(store, c) ==
    IF ~c.hasUser THEN [panic |-> TRUE, claims |-> c]
    ELSE LET g == GetUser(store, c.name) IN
         IF g.err THEN [panic |-> FALSE, claims |-> c]
         ELSE [panic |-> FALSE,
               claims |-> [c EXCEPT !.role = g.u.role,
                                    !.disabled = IF g.u.disabled THEN "true" ELSE "false",
                                    !.uid = c.name]]

\* Validate, lines 481-487.
Validate(c) == IF ~c.hasUser THEN FALSE ELSE ~BoolAttrDisabled(c)

NoCall == [op |-> "none", user |-> 0, pw |-> "", rec |-> NoUser,
           ok |-> FALSE, err |-> FALSE, checkOk |-> FALSE, checkErr |-> FALSE]

AuthInit ==
    /\ users \in [UserNames -> {NoUser, [exists |-> TRUE, disabled |-> FALSE,
                                         role |-> "admin", hash |-> HashOf("secret")]}]
    /\ claims = NoUserClaims
    /\ fresh = FALSE
    /\ pending = NoCall

\* A write of the store marks the user of the claims disabled: he was not before.
MarksDisabled(n, rec) ==
    claims.hasUser /\ claims.name = n /\ rec.disabled /\ ~(users[n].exists /\ users[n].disabled)

\* userCreateCtrl and userUpdateCtrl (lines 268-269): a user record is written.
StoreWrite(n) ==
    /\ pending = NoCall
    /\ \E rec \in UserRecords :
        /\ rec # users[n]
        /\ users' = [users EXCEPT ![n] = rec]
        /\ fresh' = IF MarksDisabled(n, rec) THEN FALSE ELSE fresh
    /\ UNCHANGED <<claims, pending, lifeVars, routeVars>>

\* userDeleteCtrl (line 270): a user record is removed.
StoreDelete(n) ==
    /\ pending = NoCall
    /\ users[n].exists
    /\ users' = [users EXCEPT ![n] = NoUser]
    /\ UNCHANGED <<claims, fresh, pending, lifeVars, routeVars>>

\* A token is minted: its claims name a user, or carry none.
NewClaims ==
    /\ pending = NoCall
    /\ \E n \in UserNames \cup {0} :
        /\ claims' = IF n = 0 THEN NoUserClaims ELSE NewUserClaims(n)
        /\ claims' # claims
    /\ fresh' = FALSE
    /\ UNCHANGED <<users, pending, lifeVars, routeVars>>

\* The claims pass through ClaimUpdateFn (a new token, or a refresh).
ClaimUpdate ==
    /\ pending = NoCall
    /\ LET r == ClaimUpdateFn(users, claims) IN
        /\ claims' = r.claims
        /\ fresh' = IF claims.hasUser THEN TRUE ELSE fresh
        /\ pending' = [NoCall EXCEPT !.op = "ClaimUpdate", !.err = r.panic]
    /\ UNCHANGED <<users, lifeVars, routeVars>>

\* The authenticator validates the claims of a token.
ValidateCall ==
    /\ pending = NoCall
    /\ pending' = [NoCall EXCEPT !.op = "Validate", !.ok = Validate(claims)]
    /\ UNCHANGED <<users, claims, fresh, lifeVars, routeVars>>

\* Credentials are checked, by BasicAuthCheckerFn and by Check.
BasicAuthCall ==
    /\ pending = NoCall
    /\ \E n \in UserNames, p \in Passwords :
        LET r == BasicAuthCheckerFn(users, n, p)
            k == Check(users, n, p)
        IN pending' = [op |-> "BasicAuth", user |-> n, pw |-> p, rec |-> users[n],
                       ok |-> r.ok, err |-> r.err, checkOk |-> k.ok, checkErr |-> k.err]
    /\ UNCHANGED <<users, claims, fresh, lifeVars, routeVars>>

\* The call returns.
CallReturns ==
    /\ pending # NoCall
    /\ pending' = NoCall
    /\ UNCHANGED <<users, claims, fresh, lifeVars, routeVars>>

AuthNext ==
    \/ \E n \in UserNames : StoreWrite(n)
    \/ \E n \in UserNames : StoreDelete(n)
    \/ NewClaims
    \/ ClaimUpdate
    \/ ValidateCall
    \/ BasicAuthCall
    \/ CallReturns

\* C1: BasicAuthCheckerFn (and Check) return ok only for an existing, enabled user
\* whose password matches the stored hash; a disabled user gets ok=false with an
\* error whatever the password; an unknown user or a wrong password gets ok=false
\* without error; so an error is returned exactly for an existing, disabled user.
C1_BasicAuthOutcome ==
    pending.op = "BasicAuth" =>
        LET rec == pending.rec
            match == rec.hash = <<"hash", pending.pw>>
        IN /\ pending.ok => rec.exists /\ ~rec.disabled /\ match
           /\ (rec.exists /\ rec.disabled) => ~pending.ok /\ pending.err
           /\ (~rec.exists \/ (~rec.disabled /\ ~match)) => ~pending.ok /\ ~pending.err
           /\ pending.err <=> (rec.exists /\ rec.disabled)
           /\ pending.checkOk = pending.ok
           /\ pending.checkErr = pending.err

C1_Witness ==
    /\ pending.op = "BasicAuth"
    /\ pending.rec.exists
    /\ pending.rec.disabled
    /\ pending.rec.hash = <<"hash", pending.pw>>
    /\ pending.err
    /\ ~pending.ok

\* C8: claims of a user who is marked disabled in the store, and which went through
\* ClaimUpdateFn since he was marked, are rejected by Validate; so are claims that
\* carry no user.
C8_DisabledClaimsRejected ==
    /\ (claims.hasUser /\ users[claims.name].exists /\ users[claims.name].disabled /\ fresh)
          => ~Validate(claims)
    /\ ~claims.hasUser => ~Validate(claims)
    /\ (pending.op = "Validate" /\ pending.ok) =>
          /\ claims.hasUser
          /\ ~(users[claims.name].exists /\ users[claims.name].disabled /\ fresh)

C8_Witness ==
    /\ pending.op = "Validate"
    /\ ~pending.ok
    /\ claims.hasUser
    /\ users[claims.name].exists
    /\ users[claims.name].disabled
    /\ fresh

(***************************************************************************)
(* Routing: the middleware chain in front of each handler of /api/v1       *)
(***************************************************************************)

\* A request carries the session of an authenticated user, known by its role, or none.
Anonymous == "anonymous"
Sessions == Roles \cup {Anonymous}

Mw(kind, roles) == [kind |-> kind, roles |-> roles]
Throttle == Mw("Throttle", {})
Limit == Mw("Limit", {})
Trace == Mw("Trace", {})
Auth == Mw("Auth", {})
RBAC(roles) == Mw("RBAC", roles)

\* What a middleware does with a request: "next", or the status it answers with.
\* Throttle and the rate limiter may turn any request away; Trace lets every request
\* pass; Auth asks for an authenticated session; RBAC, which wraps itself in Auth,
\* asks in addition for one of its roles.
MwOutcomes(m, session) ==
    CASE m.kind = "Throttle" -> {"next", "503"}
      [] m.kind = "Limit" -> {"next", "429"}
      [] m.kind = "Trace" -> {"next"}
      [] m.kind = "Auth" -> IF session = Anonymous THEN {"401"} ELSE {"next"}
      [] m.kind = "RBAC" -> IF session = Anonymous THEN {"401"}
                            ELSE IF session \in m.roles THEN {"next"}
                            ELSE {"403"}

\* routes(), lines 207 and 242-243: in front of every route of /api/v1.
RootChain == <<Throttle, Limit, Trace>>

\* Lines 258-259, 277-278, 296-297: /users, /groups and /access.
CrudRouteChain == <<Auth, RBAC({"admin", "manager"})>>

\* Lines 265-266, 284-285, 303-304: the group of the create, update and delete handlers.
CrudAdminGroupOpen == <<>>

CrudAdminGroup == <<RBAC({"admin"})>>

\* Lines 328-329: /registry/events and /registry/health.
RegistryEventsGroup == <<Auth>>

\* Lines 334-338: /registry/catalog, for any authenticated user.
RegistryCatalogGroup == <<Auth>>

\* Lines 341-344: /registry/catalog/blobs.
RegistryManagerGroup == <<Auth, RBAC({"admin", "manager"})>>

\* Lines 347-350: /registry/sync and DELETE /registry/catalog/*.
RegistryAdminGroupOpen == <<>>

RegistryAdminGroup == <<RBAC({"admin"})>>

CrudReadHandlers ==
    {"userInfoCtrl", "userFindCtrl", "groupInfoCtrl", "groupFindCtrl",
     "accessInfoCtrl", "accessFindCtrl"}

CrudWriteHandlers ==
    {"userCreateCtrl", "userUpdateCtrl", "userDeleteCtrl",
     "groupCreateCtrl", "groupUpdateCtrl", "groupDeleteCtrl",
     "accessAddCtrl", "accessUpdateCtrl", "accessDeleteCtrl"}

RegistryHandlers ==
    {"tokenAuth", "events", "health", "catalogList", "imageConfig",
     "syncRepositories", "deleteDigest"}

Handlers == CrudReadHandlers \cup CrudWriteHandlers \cup RegistryHandlers

\* The middlewares routes() puts in front of a handler, outermost first.
Chain(h) ==
    RootChain \o
    (CASE h \in CrudReadHandlers -> CrudRouteChain
       [] h \in CrudWriteHandlers -> CrudRouteChain \o CrudAdminGroup
       [] h = "tokenAuth" -> <<>>
       [] h \in {"events", "health"} -> RegistryEventsGroup
       [] h = "catalogList" -> RegistryCatalogGroup
       [] h = "imageConfig" -> RegistryManagerGroup
       [] h \in {"syncRepositories", "deleteDigest"} -> RegistryAdminGroup)

NoReq == [handler |-> "none", session |-> Anonymous]

RoutesIdle ==
    /\ req = NoReq
    /\ reqPos = 0
    /\ reqStatus = "none"

\* A request for one of the routes arrives.
Receive ==
    /\ reqStatus = "none"
    /\ \E h \in Handlers, s \in Sessions : req' = [handler |-> h, session |-> s]
    /\ reqPos' = 0
    /\ reqStatus' = "pending"
    /\ UNCHANGED <<lifeVars, authVars>>

\* The next middleware of the chain lets the request pass, or answers it.
MiddlewareStep ==
    /\ reqStatus = "pending"
    /\ reqPos < Len(Chain(req.handler))
    /\ \E o \in MwOutcomes(Chain(req.handler)[reqPos + 1], req.session) :
        IF o = "next"
        THEN reqPos' = reqPos + 1 /\ reqStatus' = reqStatus
        ELSE reqPos' = reqPos /\ reqStatus' = o
    /\ UNCHANGED <<req, lifeVars, authVars>>

\* The request passed every middleware: it reaches the handler.
ReachHandler ==
    /\ reqStatus = "pending"
    /\ reqPos = Len(Chain(req.handler))
    /\ reqStatus' = "handler"
    /\ UNCHANGED <<req, reqPos, lifeVars, authVars>>

\* The request has been answered.
Respond ==
    /\ reqStatus \notin {"none", "pending"}
    /\ req' = NoReq
    /\ reqPos' = 0
    /\ reqStatus' = "none"
    /\ UNCHANGED <<lifeVars, authVars>>

RoutesNext ==
    \/ Receive
    \/ MiddlewareStep
    \/ ReachHandler
    \/ Respond

Reached(h) == reqStatus = "handler" /\ req.handler = h

\* C2, as stated: the handlers of GET /registry/catalog, GET /registry/catalog/blobs,
\* GET /registry/sync and DELETE /registry/catalog/{digest} are reached only by an
\* authenticated session whose role is admin or manager.
C2_RegistryRoutesAdminOrManager ==
    \A h \in {"catalogList", "imageConfig", "syncRepositories", "deleteDigest"} :
        Reached(h) => req.session \in {"admin", "manager"}

\* C2, amended: none of the four handlers is reached without an authenticated
\* session; those of /registry/catalog/blobs, /registry/sync and DELETE
\* /registry/catalog/{digest} are reached only with the role admin or manager, while
\* GET /registry/catalog is reached by an authenticated session of any role.
C2_RegistryRoutesGuarded ==
    /\ \A h \in {"catalogList", "imageConfig", "syncRepositories", "deleteDigest"} :
          Reached(h) => req.session # Anonymous
    /\ \A h \in {"imageConfig", "syncRepositories", "deleteDigest"} :
          Reached(h) => req.session \in {"admin", "manager"}

C2_Witness == Reached("catalogList") /\ req.session = "user"

\* C10: the create, update and delete handlers of /users, /groups and /access are
\* reached only with the role admin, the read handlers only with admin or manager.
C10_CrudRoutesGuarded ==
    /\ \A h \in CrudWriteHandlers : Reached(h) => req.session = "admin"
    /\ \A h \in CrudReadHandlers : Reached(h) => req.session \in {"admin", "manager"}

C10_Witness ==
    /\ req.handler \in CrudWriteHandlers
    /\ req.session = "manager"
    /\ reqStatus = "403"
    /\ reqPos = Len(Chain(req.handler)) - 1

AuthIdle ==
    /\ users = [n \in UserNames |-> NoUser]
    /\ claims = NoUserClaims
    /\ fresh = FALSE
    /\ pending = NoCall

\* The server of SpecAuth and SpecRoutes: Run is serving routes() over http.
LifeServing ==
    /\ regNil = FALSE
    /\ sslMode = SSLNone
    /\ gcInterval = 1
    /\ ctxCancelled = FALSE
    /\ runPc = "serving"
    /\ redirPc = "none"
    /\ shutPc = "idle"
    /\ lock = "free"
    /\ httpServer = "listening"
    /\ httpsServer = "nil"
    /\ storageClosed = FALSE
    /\ panicked = FALSE
    /\ events = <<"sync", "maintenance", "listen">>
    /\ startupSync = "ok"
    /\ lastSyncErr = FALSE
    /\ schedState = "on"
    /\ busy = FALSE
    /\ runs = [r \in RunIds |-> NoRun]
    /\ nRuns = 0
    /\ skipped = 0
    /\ schedErrors = 0

Init == LifeInit /\ AuthIdle /\ RoutesIdle

Spec == Init /\ [][Next]_vars

InitAuth == LifeServing /\ AuthInit /\ RoutesIdle

SpecAuth == InitAuth /\ [][AuthNext]_vars

InitRoutes == LifeServing /\ AuthIdle /\ RoutesIdle

SpecRoutes == InitRoutes /\ [][RoutesNext]_vars

====
